---------------------------- MODULE Spec2Model ----------------------------
(***************************************************************************)
(* A model of src/main.py of ArtifactGenerator: the flat-map                *)
(* differ/patcher (ConfigComparator), the model builder (ModelParser), the  *)
(* tree serializer (ConfigXmlGenerator) and the metadata projector          *)
(* (MetaJsonGenerator).  Every loop of the source is one action that runs   *)
(* one iteration; pc is the place in the code and raised the exception that *)
(* ended the run.  The outputs are kept as data: the element tree before    *)
(* ET.tostring and the entry list before json.dumps.                        *)
(***************************************************************************)
EXTENDS Integers, Sequences, FiniteSets, TLC

\* ------------------------------------------------------------------ bounds
\* Number of distinct configuration keys the snapshots draw from.
NumKeys == 3
\* Most entries (over the three buckets) of a delta that compare did not make.
MaxDeltaLen == 2

\* Number of class names the model descriptions draw from.
NumClasses == 2
\* Most declarations (children of the root element) of a free-form description.
MaxDecls == 3
\* Most aggregations of a description written classes first.
MaxRefs == 2
\* Longest multiplicity string, in characters, of the multiplicity study.
MaxMultLen == 5

\* Configuration keys; a key's position in the pool is its rank in sorted order.
KeyPool == <<"a", "b", "c", "d", "e">>
Keys == {KeyPool[i] : i \in 1..NumKeys}
KeyRank(k) == CHOOSE i \in 1..Len(KeyPool) : KeyPool[i] = k
\* Scalar configuration values; two are enough to tell equal from different.
Values == {1, 2}

VARIABLES
    config,          \* compare/apply_delta: the base mapping
    patched_config,  \* compare: the patched mapping
    all_keys,        \* compare: keys of the set union not yet iterated
    delta,           \* the delta: [additions, deletions, updates]
    result,          \* apply_delta: the copy being patched
    idx,             \* position of the running loop in its list
    pc,              \* where the running function is
    description,     \* parse: the children of the root element of xml_content
    classes,         \* parse: the dict name -> ClassModel, in insertion order
    aggregations,    \* parse: the list of Aggregation objects
    stack,           \* generate: the active calls of build_xml, outermost first
    config_xml,      \* generate: the element tree returned
    meta_json,       \* MetaJsonGenerator.generate: the list of class entries
    raised           \* the exception that ended the run, "None" while there is none

diffVars == <<config, patched_config, all_keys, delta, result>>
modelVars == <<description, classes, aggregations, stack, config_xml, meta_json, raised>>
vars == <<config, patched_config, all_keys, delta, result, idx, pc,
          description, classes, aggregations, stack, config_xml, meta_json, raised>>

\* --------------------------------------------------------- flat mappings
\* A Python dict with keys in Keys: a function whose domain is a subset of Keys.
Mappings == UNION {[D -> Values] : D \in SUBSET Keys}
EmptyMapping == [k \in {} |-> 0]

\* del d[key]
DictDel(d, key) == [k \in (DOMAIN d) \ {key} |-> d[k]]
\* d[key] = value
DictSet(d, key, value) ==
    [k \in (DOMAIN d) \cup {key} |-> IF k = key THEN value ELSE d[k]]

EmptyDelta == [additions |-> <<>>, deletions |-> <<>>, updates |-> <<>>]

\* ------------------------------------------------ ConfigComparator.compare
\* A slip in the first test of the chain: "key not in config" forgotten, so a
\* key of both mappings is reported as an addition.
CompareKeyNoBaseTest(d, base, patched, key) ==
    IF key \in DOMAIN patched
    THEN [d EXCEPT !.additions =
              Append(@, [key |-> key, value |-> patched[key]])]
    ELSE IF key \in DOMAIN base /\ key \notin DOMAIN patched
    THEN [d EXCEPT !.deletions = Append(@, key)]
    ELSE d

\* The body of the loop over all_keys for one key: the if / elif / elif chain.
CompareKey(d, base, patched, key) ==
    IF key \in DOMAIN patched /\ key \notin DOMAIN base
    THEN [d EXCEPT !.additions =
              Append(@, [key |-> key, value |-> patched[key]])]
    ELSE IF key \in DOMAIN base /\ key \notin DOMAIN patched
    THEN [d EXCEPT !.deletions = Append(@, key)]
    ELSE IF base[key] # patched[key]
    THEN [d EXCEPT !.updates =
              Append(@, [key |-> key, from |-> base[key], to |-> patched[key]])]
    ELSE d

\* One iteration of "for key in all_keys": a Python set iterates in an order
\* that depends on the string hashes (randomised per process) and on the
\* insertion history, so any remaining key may come next.
CompareStep ==
    /\ pc = "compare"
    /\ all_keys # {}
    /\ \E key \in all_keys :
          /\ delta' = CompareKey(delta, config, patched_config, key)
          /\ all_keys' = all_keys \ {key}
    /\ UNCHANGED <<config, patched_config, result, idx, pc, modelVars>>

\* compare returns its three buckets; main() hands them to apply_delta, which
\* starts from a copy of config.
CompareReturn ==
    /\ pc = "compare"
    /\ all_keys = {}
    /\ result' = config
    /\ idx' = 1
    /\ pc' = "deletions"
    /\ UNCHANGED <<config, patched_config, all_keys, delta, modelVars>>

\* -------------------------------------------- ConfigComparator.apply_delta
\* for key in delta["deletions"]: if key in result: del result[key]
DeleteKey(r, key) == IF key \in DOMAIN r THEN DictDel(r, key) ELSE r

ApplyDeletion ==
    /\ pc = "deletions"
    /\ IF idx <= Len(delta.deletions)
       THEN /\ result' = DeleteKey(result, delta.deletions[idx])
            /\ idx' = idx + 1
            /\ pc' = pc
       ELSE /\ pc' = "updates"
            /\ idx' = 1
            /\ result' = result
    /\ UNCHANGED <<config, patched_config, all_keys, delta, modelVars>>

\* A slip: the update writes its "from" value.
UpdateKeyFrom(r, update) == DictSet(r, update.key, update.from)

\* for update in delta["updates"]: result[update["key"]] = update["to"]
UpdateKey(r, update) == DictSet(r, update.key, update.to)

ApplyUpdate ==
    /\ pc = "updates"
    /\ IF idx <= Len(delta.updates)
       THEN /\ result' = UpdateKey(result, delta.updates[idx])
            /\ idx' = idx + 1
            /\ pc' = pc
       ELSE /\ pc' = "additions"
            /\ idx' = 1
            /\ result' = result
    /\ UNCHANGED <<config, patched_config, all_keys, delta, modelVars>>

\* A slip: result.setdefault(key, value), which keeps an existing value.
AddKeyIfAbsent(r, addition) ==
    IF addition.key \in DOMAIN r THEN r ELSE DictSet(r, addition.key, addition.value)

\* for addition in delta["additions"]: result[addition["key"]] = addition["value"]
AddKey(r, addition) == DictSet(r, addition.key, addition.value)

ApplyAddition ==
    /\ pc = "additions"
    /\ IF idx <= Len(delta.additions)
       THEN /\ result' = AddKey(result, delta.additions[idx])
            /\ idx' = idx + 1
            /\ pc' = pc
       ELSE /\ pc' = "returned"
            /\ idx' = idx
            /\ result' = result
    /\ UNCHANGED <<config, patched_config, all_keys, delta, modelVars>>

\* ------------------------------------------------------- specifications
\* The model pipeline has not run.
ModelIdle ==
    /\ description = <<>>
    /\ classes = <<>>
    /\ aggregations = <<>>
    /\ stack = <<>>
    /\ config_xml = <<>>
    /\ meta_json = <<>>
    /\ raised = "None"

\* compare(config, patched_config) followed by apply_delta(config, delta), as
\* main() runs them, for every pair of flat mappings.
InitDiff ==
    /\ config \in Mappings
    /\ patched_config \in Mappings
    /\ all_keys = (DOMAIN config) \cup (DOMAIN patched_config)
    /\ delta = EmptyDelta
    /\ result = EmptyMapping
    /\ idx = 1
    /\ pc = "compare"
    /\ ModelIdle

NextDiff ==
    \/ CompareStep
    \/ CompareReturn
    \/ ApplyDeletion
    \/ ApplyUpdate
    \/ ApplyAddition

SpecDiff == InitDiff /\ [][NextDiff]_vars

\* apply_delta(config, delta) on a delta that compare did not make: any three
\* buckets holding at most maxLen entries between them.
SeqsOfLen(S, n) == [1..n -> S]
AdditionEntries == [key : Keys, value : Values]
UpdateEntries == [key : Keys, from : Values, to : Values]
ArbitraryDeltas(maxLen) ==
    UNION {[additions : SeqsOfLen(AdditionEntries, a),
            deletions : SeqsOfLen(Keys, d),
            updates : SeqsOfLen(UpdateEntries, u)] :
           <<a, d, u>> \in {t \in (0..maxLen) \X (0..maxLen) \X (0..maxLen) :
                               t[1] + t[2] + t[3] <= maxLen}}

InitApply ==
    /\ config \in Mappings
    /\ patched_config = EmptyMapping
    /\ all_keys = {}
    /\ delta \in ArbitraryDeltas(MaxDeltaLen)
    /\ result = config
    /\ idx = 1
    /\ pc = "deletions"
    /\ ModelIdle

NextApply ==
    \/ ApplyDeletion
    \/ ApplyUpdate
    \/ ApplyAddition

SpecApply == InitApply /\ [][NextApply]_vars

\* ----------------------------------------------------- model descriptions
\* Class names of the descriptions.
ClassPool == <<"Robot", "Engine", "Wheel", "Axle", "Bolt">>
ClassNames == {ClassPool[i] : i \in 1..NumClasses}

\* A string that the code takes apart (a multiplicity) is a sequence of
\* one-character strings: "0..*" is <<"0", ".", ".", "*">>.
Multiplicities == {<<"1">>, <<"0", ".", ".", "*">>}

\* An element of the XML tree read by ET.fromstring: a tag, the attribute
\* dict (a function of the attribute names present) and the sub-elements.
Element(tag, attrib, children) ==
    [tag |-> tag, attrib |-> attrib, children |-> children]
ClassElem(name, isRoot, children) ==
    Element("Class",
            IF isRoot THEN [name |-> name, isRoot |-> "True"] ELSE [name |-> name],
            children)
AggregationElem(source, target, multiplicity) ==
    Element("Aggregation",
            [source |-> source, target |-> target,
             sourceMultiplicity |-> multiplicity, targetMultiplicity |-> <<"1">>],
            <<>>)
AttributeElem(name, type) ==
    Element("Attribute", [name |-> name, type |-> type], <<>>)
\* Declarations that lack a required attribute, and an element of another tag.
NamelessClassElem == Element("Class", [isRoot |-> "True"], <<>>)
HalfAggregationElem ==
    Element("Aggregation",
            [source |-> ClassPool[1], target |-> ClassPool[1],
             sourceMultiplicity |-> <<"1">>],
            <<>>)
NoteElem == Element("Note", <<>>, <<>>)

\* ------------------------------------------------------ ModelParser.parse
Has(attrib, key) == key \in DOMAIN attrib
\* attrib.get(key, default)
Get(attrib, key, default) == IF Has(attrib, key) THEN attrib[key] ELSE default
\* str.lower() on the spellings of the root flag.
Lower(str) ==
    IF str \in {"true", "True", "TRUE"} THEN "true"
    ELSE IF str \in {"false", "False", "FALSE"} THEN "false"
    ELSE str

\* The index of the first ".." in s, 0 when there is none.
FindSeparator(s) ==
    LET at == {i \in 1..(Len(s) - 1) : s[i] = "." /\ s[i + 1] = "."}
    IN  IF at = {} THEN 0 ELSE CHOOSE i \in at : \A j \in at : i <= j
\* s.split(".."): the pieces between the separators, found left to right.
RECURSIVE Split(_)
Split(s) ==
    LET i == FindSeparator(s)
    IN  IF i = 0 THEN <<s>>
        ELSE <<SubSeq(s, 1, i - 1)>> \o Split(SubSeq(s, i + 2, Len(s)))

\* A slip: the second field of the tuple copied from the first, [0] for [-1].
MaxOfFirstPiece(multiplicity) ==
    IF FindSeparator(multiplicity) # 0
    THEN Split(multiplicity)[1]
    ELSE multiplicity

\* source_multiplicity.split("..")[0]
MinOf(multiplicity) == Split(multiplicity)[1]
\* source_multiplicity.split("..")[-1] if ".." in source_multiplicity else source_multiplicity
MaxOf(multiplicity) ==
    IF FindSeparator(multiplicity) # 0
    THEN Split(multiplicity)[Len(Split(multiplicity))]
    ELSE multiplicity

\* The dict classes is the sequence of its values in insertion order.
DictIndex(dict, name) ==
    LET at == {i \in 1..Len(dict) : dict[i].name = name}
    IN  IF at = {} THEN 0 ELSE CHOOSE i \in at : TRUE
\* classes[name] = class_model: a new key goes last, a known key keeps its place.
DictPut(dict, class_model) ==
    LET i == DictIndex(dict, class_model.name)
    IN  IF i = 0 THEN Append(dict, class_model)
        ELSE [dict EXCEPT ![i] = class_model]

\* The Attribute sub-elements of a Class element, in order.
AttributeElems(elem) == SelectSeq(elem.children, LAMBDA a : a.tag = "Attribute")
\* The ClassModel built from a Class element that has what it needs.
ClassModelOf(elem) ==
    [name |-> elem.attrib["name"],
     is_root |-> Lower(Get(elem.attrib, "isRoot", "false")) = "true",
     documentation |-> Get(elem.attrib, "documentation", ""),
     attributes |-> [i \in 1..Len(AttributeElems(elem)) |->
                        [name |-> AttributeElems(elem)[i].attrib["name"],
                         type |-> AttributeElems(elem)[i].attrib["type"]]],
     child_classes |-> <<>>]
ClassElemComplete(elem) ==
    /\ Has(elem.attrib, "name")
    /\ \A i \in 1..Len(AttributeElems(elem)) :
          /\ Has(AttributeElems(elem)[i].attrib, "name")
          /\ Has(AttributeElems(elem)[i].attrib, "type")
AggregationElemComplete(elem) ==
    /\ Has(elem.attrib, "source")
    /\ Has(elem.attrib, "target")
    /\ Has(elem.attrib, "sourceMultiplicity")
    /\ Has(elem.attrib, "targetMultiplicity")
AggregationOf(elem) ==
    [source |-> elem.attrib["source"],
     target |-> elem.attrib["target"],
     source_multiplicity |-> elem.attrib["sourceMultiplicity"],
     target_multiplicity |-> elem.attrib["targetMultiplicity"]]

\* One iteration of "for elem in root", or the end of that loop.
ParseElem ==
    /\ pc = "parse_elems"
    /\ raised = "None"
    /\ IF idx <= Len(description)
       THEN /\ pc' = pc
            /\ LET elem == description[idx]
               IN
                IF elem.tag = "Class"
                THEN IF ClassElemComplete(elem)
                     THEN /\ classes' = DictPut(classes, ClassModelOf(elem))
                          /\ UNCHANGED <<aggregations, raised>>
                          /\ idx' = idx + 1
                     ELSE /\ raised' = "KeyError"
                          /\ UNCHANGED <<classes, aggregations, idx>>
                ELSE IF elem.tag = "Aggregation"
                THEN IF AggregationElemComplete(elem)
                     THEN /\ aggregations' = Append(aggregations, AggregationOf(elem))
                          /\ UNCHANGED <<classes, raised>>
                          /\ idx' = idx + 1
                     ELSE /\ raised' = "KeyError"
                          /\ UNCHANGED <<classes, aggregations, idx>>
                ELSE /\ idx' = idx + 1
                     /\ UNCHANGED <<classes, aggregations, raised>>
       ELSE /\ pc' = "parse_aggs"
            /\ idx' = 1
            /\ UNCHANGED <<classes, aggregations, raised>>
    /\ UNCHANGED <<diffVars, description, stack, config_xml, meta_json>>

\* A slip: the child reference is filed under the aggregation's source.
ChildRefOwnerSource(agg) == agg.source

\* The class that receives the child reference of agg: classes.get(agg.target).
ChildRefOwner(agg) == agg.target
\* The tuple appended to child_classes.
ChildRef(agg) ==
    <<agg.source, MinOf(agg.source_multiplicity), MaxOf(agg.source_multiplicity)>>

\* One iteration of "for agg in aggregations", or parse returning to main(),
\* which calls ConfigXmlGenerator.generate next.
ResolveAggregation ==
    /\ pc = "parse_aggs"
    /\ IF idx <= Len(aggregations)
       THEN LET agg == aggregations[idx]
                i == DictIndex(classes, ChildRefOwner(agg))
            IN  /\ classes' = IF i # 0
                              THEN [classes EXCEPT ![i].child_classes =
                                        Append(@, ChildRef(agg))]
                              ELSE classes
                /\ idx' = idx + 1
                /\ pc' = pc
       ELSE /\ pc' = "generate"
            /\ idx' = 1
            /\ classes' = classes
    /\ UNCHANGED <<diffVars, description, aggregations, stack, config_xml,
                   meta_json, raised>>

\* -------------------------------------------- ConfigXmlGenerator.generate
\* An ET.Element of the output tree: a tag, a text and the sub-elements.
XmlElement(tag, text, children) ==
    [tag |-> tag, text |-> text, children |-> children]

\* Stand-in for sys.getrecursionlimit(): expanding a containment without a
\* cycle needs at most one call of build_xml per class, so a call this deep
\* is inside a cycle, as a call at Python's limit is for any model of fewer
\* classes than that limit.
RecursionLimit == NumClasses + 1

\* A slip: attr_elem.text = attr.type forgotten.
NewClassElementNoText(class_model) ==
    XmlElement(class_model.name, "",
               [i \in 1..Len(class_model.attributes) |->
                   XmlElement(class_model.attributes[i].name, "", <<>>)])

\* The first lines of build_xml: the element of the class with one
\* sub-element per attribute.
NewClassElement(class_model) ==
    XmlElement(class_model.name, "",
               [i \in 1..Len(class_model.attributes) |->
                   XmlElement(class_model.attributes[i].name,
                              class_model.attributes[i].type, <<>>)])

\* A call build_xml(class_name) from a stack st: what it makes of the stack
\* and what it raises.
CallBuildXml(st, class_name) ==
    IF Len(st) >= RecursionLimit
    THEN [stack |-> st, raised |-> "RecursionError"]
    ELSE IF DictIndex(classes, class_name) = 0
    THEN [stack |-> st, raised |-> "KeyError"]
    ELSE [stack |-> Append(st, [class_name |-> class_name,
                                element |-> NewClassElement(
                                    classes[DictIndex(classes, class_name)]),
                                child |-> 1]),
          raised |-> "None"]

\* A slip: "if not model" for "if not root_class", so that a model without a
\* root flag falls back on its first class.
RootIndexOrFirst ==
    LET roots == {i \in 1..Len(classes) : classes[i].is_root}
    IN  IF roots # {} THEN CHOOSE i \in roots : \A j \in roots : i <= j
        ELSE IF classes # <<>> THEN 1 ELSE 0

\* next((c for c in model.values() if c.is_root), None): the index of the
\* first class flagged root, 0 for None.
RootIndex ==
    LET roots == {i \in 1..Len(classes) : classes[i].is_root}
    IN  IF roots = {} THEN 0 ELSE CHOOSE i \in roots : \A j \in roots : i <= j

\* generate up to its call build_xml(root_class.name).
Generate ==
    /\ pc = "generate"
    /\ raised = "None"
    /\ IF RootIndex = 0
       THEN /\ raised' = "ValueError"
            /\ UNCHANGED <<stack, pc>>
       ELSE LET call == CallBuildXml(<<>>, classes[RootIndex].name)
            IN  /\ stack' = call.stack
                /\ raised' = call.raised
                /\ pc' = "build_xml"
    /\ UNCHANGED <<diffVars, idx, description, classes, aggregations,
                   config_xml, meta_json>>

\* A slip: build_xml guarded against re-entering a class that is being
\* expanded, which returns a tree for a cyclic model.
NextChildSkippingActive(frame) ==
    LET refs == classes[DictIndex(classes, frame.class_name)].child_classes
        active == {stack[i].class_name : i \in 1..Len(stack)}
        open == {i \in frame.child..Len(refs) : refs[i][1] \notin active}
    IN  IF open = {} THEN Len(refs) + 1 ELSE CHOOSE i \in open : \A j \in open : i <= j

\* The position in child_classes of the child build_xml expands next.
NextChild(frame) == frame.child

Top == stack[Len(stack)]
TopRefs == classes[DictIndex(classes, Top.class_name)].child_classes

\* build_xml, in the loop over child_classes: the recursive call for the
\* next child.
BuildXmlCall ==
    /\ pc = "build_xml"
    /\ raised = "None"
    /\ stack # <<>>
    /\ NextChild(Top) <= Len(TopRefs)
    /\ LET at == NextChild(Top)
           call == CallBuildXml([stack EXCEPT ![Len(stack)].child = at],
                                TopRefs[at][1])
       IN  /\ stack' = call.stack
           /\ raised' = call.raised
    /\ UNCHANGED <<diffVars, idx, pc, description, classes, aggregations,
                   config_xml, meta_json>>

\* build_xml returns its element: the caller appends it and moves to its
\* next child; the outermost call returns to generate, which returns the
\* tree to main(), and main() calls MetaJsonGenerator.generate.
BuildXmlReturn ==
    /\ pc = "build_xml"
    /\ raised = "None"
    /\ stack # <<>>
    /\ NextChild(Top) > Len(TopRefs)
    /\ IF Len(stack) = 1
       THEN /\ config_xml' = Top.element
            /\ stack' = <<>>
            /\ pc' = "meta"
            /\ idx' = 1
       ELSE /\ stack' = [SubSeq(stack, 1, Len(stack) - 1)
                            EXCEPT ![Len(stack) - 1].element.children =
                                       Append(@, Top.element),
                                   ![Len(stack) - 1].child = @ + 1]
            /\ UNCHANGED <<config_xml, pc, idx>>
    /\ UNCHANGED <<diffVars, description, classes, aggregations, meta_json, raised>>

\* ---------------------------------------------- MetaJsonGenerator.generate
\* A slip: the cardinality taken from the last child reference, [-1] for [0].
CardinalityRefLast(class_model) ==
    class_model.child_classes[Len(class_model.child_classes)]

\* class_model.child_classes[0]
CardinalityRef(class_model) == class_model.child_classes[1]

\* The entry of one class.
ClassEntry(class_model) ==
    LET parameters ==
            [i \in 1..Len(class_model.attributes) |->
                [name |-> class_model.attributes[i].name,
                 type |-> class_model.attributes[i].type]]
            \o [i \in 1..Len(class_model.child_classes) |->
                [name |-> class_model.child_classes[i][1], type |-> "class"]]
        entry == [class |-> class_model.name,
                  documentation |-> class_model.documentation,
                  isRoot |-> class_model.is_root,
                  parameters |-> parameters]
    IN  IF class_model.child_classes # <<>>
        THEN entry @@ [min |-> CardinalityRef(class_model)[2],
                       max |-> CardinalityRef(class_model)[3]]
        ELSE entry

\* One iteration of "for class_name, class_model in model.items()", or the
\* end of the loop.
MetaStep ==
    /\ pc = "meta"
    /\ IF idx <= Len(classes)
       THEN /\ meta_json' = Append(meta_json, ClassEntry(classes[idx]))
            /\ idx' = idx + 1
            /\ pc' = pc
       ELSE /\ pc' = "done"
            /\ UNCHANGED <<meta_json, idx>>
    /\ UNCHANGED <<diffVars, description, classes, aggregations, stack,
                   config_xml, raised>>

\* The differ has not run.
DiffIdle ==
    /\ config = EmptyMapping
    /\ patched_config = EmptyMapping
    /\ all_keys = {}
    /\ delta = EmptyDelta
    /\ result = EmptyMapping

\* main() on a description: parse, then generate, then the metadata.
InitModel(descriptions) ==
    /\ description \in descriptions
    /\ classes = <<>>
    /\ aggregations = <<>>
    /\ stack = <<>>
    /\ config_xml = <<>>
    /\ meta_json = <<>>
    /\ raised = "None"
    /\ idx = 1
    /\ pc = "parse_elems"
    /\ DiffIdle

NextModel ==
    \/ ParseElem
    \/ ResolveAggregation
    \/ Generate
    \/ BuildXmlCall
    \/ BuildXmlReturn
    \/ MetaStep

\* Free-form descriptions: up to maxDecls declarations in any order, class
\* declarations without attributes, aggregations between any two names.
MainElems ==
    {ClassElem(n, r, <<>>) : n \in ClassNames, r \in BOOLEAN}
    \cup {AggregationElem(src, tgt, m) :
             src \in ClassNames, tgt \in ClassNames, m \in Multiplicities}
    \cup {NamelessClassElem, HalfAggregationElem, NoteElem}
MainDescriptions(maxDecls) == UNION {[1..n -> MainElems] : n \in 0..maxDecls}
InitMain == InitModel(MainDescriptions(MaxDecls))
SpecMain == InitMain /\ [][NextModel]_vars

\* Descriptions written classes first: every class name declared, root or
\* not, with or without attributes, then up to maxRefs aggregations between
\* the classes, all of one multiplicity.
AttributeLists ==
    {<<>>,
     <<AttributeElem("id", "int"), NoteElem, AttributeElem("label", "string")>>}
RECURSIVE ClassDecls(_, _)
ClassDecls(choice, i) ==
    IF i > NumClasses THEN <<>>
    ELSE <<ClassElem(ClassPool[i], choice[ClassPool[i]][1], choice[ClassPool[i]][2])>>
         \o ClassDecls(choice, i + 1)
TreeDescriptions(attributeLists, multiplicities, maxRefs) ==
    {ClassDecls(choice, 1)
        \o [i \in 1..Len(refs) |-> AggregationElem(refs[i][1], refs[i][2], m)] :
     choice \in [ClassNames -> BOOLEAN \X attributeLists],
     refs \in UNION {[1..n -> ClassNames \X ClassNames] : n \in 0..maxRefs},
     m \in multiplicities}
InitTree == InitModel(TreeDescriptions(AttributeLists, Multiplicities, MaxRefs))
SpecTree == InitTree /\ [][NextModel]_vars

\* The termination study: the same descriptions with the classes bare and
\* the multiplicity "1", which the expansion does not read.  A run of main()
\* is one thread that is never suspended: while a step is possible one is
\* taken.
InitCycle == InitModel(TreeDescriptions({<<>>}, {<<"1">>}, MaxRefs))
FairSpecCycle == InitCycle /\ [][NextModel]_vars /\ WF_vars(NextModel)

\* Descriptions written classes first for the metadata: each class name
\* undeclared or declared (root or not), then up to maxRefs aggregations, each
\* of a multiplicity of its own.
RECURSIVE PlainClassDecls(_, _)
PlainClassDecls(choice, i) ==
    IF i > NumClasses THEN <<>>
    ELSE (IF choice[ClassPool[i]] = "undeclared" THEN <<>>
          ELSE <<ClassElem(ClassPool[i], choice[ClassPool[i]] = "root", <<>>)>>)
         \o PlainClassDecls(choice, i + 1)
MetaDescriptions(maxRefs) ==
    {PlainClassDecls(choice, 1)
        \o [i \in 1..Len(refs) |->
               AggregationElem(refs[i][1], refs[i][2], refs[i][3])] :
     choice \in [ClassNames -> {"undeclared", "plain", "root"}],
     refs \in UNION {[1..n -> ClassNames \X ClassNames \X Multiplicities] :
                        n \in 0..maxRefs}}
InitMeta == InitModel(MetaDescriptions(MaxRefs))
SpecMeta == InitMeta /\ [][NextModel]_vars

\* The multiplicity study: a root, a second class and one aggregation of the
\* second under the root, with any string of up to maxLen characters as
\* its source multiplicity.
MultChars == {"0", ".", "*"}
MultStrings(maxLen) == UNION {[1..n -> MultChars] : n \in 0..maxLen}
CardDescriptions(maxLen) ==
    {<<ClassElem(ClassPool[1], TRUE, <<>>), ClassElem(ClassPool[2], FALSE, <<>>),
       AggregationElem(ClassPool[2], ClassPool[1], m)>> : m \in MultStrings(maxLen)}
InitCard == InitModel(CardDescriptions(MaxMultLen))
SpecCard == InitCard /\ [][NextModel]_vars

\* ------------------------------------------------- properties of the differ
\* Positions of key k in each bucket of the delta.
InAdditions(k) == {i \in 1..Len(delta.additions) : delta.additions[i].key = k}
InDeletions(k) == {i \in 1..Len(delta.deletions) : delta.deletions[i] = k}
InUpdates(k) == {i \in 1..Len(delta.updates) : delta.updates[i].key = k}
Last(S) == CHOOSE i \in S : \A j \in S : j <= i
CompareDone == pc # "compare"

\* C1: round trip.  When apply_delta(config, compare(config, patched_config))
\* returns, its result is a mapping equal to patched_config: the same key set
\* and the same value for every key.
C1_RoundTrip ==
    pc = "returned" =>
        /\ DOMAIN result = DOMAIN patched_config
        /\ \A k \in DOMAIN result : result[k] = patched_config[k]

\* C1 witness: a round trip that returned after a delta with an addition, a
\* deletion and an update.
C1_Witness ==
    /\ pc = "returned"
    /\ delta.additions # <<>>
    /\ delta.deletions # <<>>
    /\ delta.updates # <<>>

\* C2: diff exclusivity.  In compare's result every key falls in exactly one
\* class: listed once in additions with patched[k] (only in patched), once in
\* deletions (only in base), once in updates with from = base[k] and
\* to = patched[k] (in both, values differ), or nowhere (in both with equal
\* values, or in neither mapping).
C2_DiffExclusive ==
    CompareDone =>
        \A k \in Keys :
            LET A == InAdditions(k)
                D == InDeletions(k)
                U == InUpdates(k)
                inBase == k \in DOMAIN config
                inPatched == k \in DOMAIN patched_config
            IN  IF inPatched /\ ~inBase
                THEN /\ Cardinality(A) = 1 /\ D = {} /\ U = {}
                     /\ \A i \in A : delta.additions[i].value = patched_config[k]
                ELSE IF inBase /\ ~inPatched
                THEN Cardinality(D) = 1 /\ A = {} /\ U = {}
                ELSE IF inBase /\ inPatched /\ config[k] # patched_config[k]
                THEN /\ Cardinality(U) = 1 /\ A = {} /\ D = {}
                     /\ \A i \in U : /\ delta.updates[i].from = config[k]
                                     /\ delta.updates[i].to = patched_config[k]
                ELSE A = {} /\ D = {} /\ U = {}

\* C2 witness: compare has finished on mappings that hold a key of each of
\* three classes: one added, one deleted, one left unchanged.
C2_Witness ==
    /\ CompareDone
    /\ \E k \in Keys : k \in DOMAIN patched_config /\ k \notin DOMAIN config
    /\ \E k \in Keys : k \in DOMAIN config /\ k \notin DOMAIN patched_config
    /\ \E k \in Keys : /\ k \in DOMAIN config /\ k \in DOMAIN patched_config
                       /\ config[k] = patched_config[k]

\* C9: deterministic bucket order.  The entries of each bucket of compare's
\* result are sorted by key, the one order that depends on the keys alone.
KeysOfEntries(bucket) == [i \in 1..Len(bucket) |-> bucket[i].key]
SortedKeys(ks) ==
    \A i, j \in 1..Len(ks) : i < j => KeyRank(ks[i]) < KeyRank(ks[j])
C9_BucketsSorted ==
    CompareDone =>
        /\ SortedKeys(KeysOfEntries(delta.additions))
        /\ SortedKeys(delta.deletions)
        /\ SortedKeys(KeysOfEntries(delta.updates))

\* C3: apply_delta on any delta.  It ends without an error, and for every key:
\* if some addition lists it, it is present with the value of the last such
\* addition; else if some update lists it, it is present with the "to" of the
\* last such update, whether or not the base held it and whatever "from" says;
\* else if a deletion lists it, it is absent (also when the base never held
\* it); else it is as in the base.
C3_ApplyOrder ==
    /\ pc \in {"deletions", "updates", "additions", "returned"}
    /\ pc = "returned" =>
        \A k \in Keys :
            IF InAdditions(k) # {}
            THEN /\ k \in DOMAIN result
                 /\ result[k] = delta.additions[Last(InAdditions(k))].value
            ELSE IF InUpdates(k) # {}
            THEN /\ k \in DOMAIN result
                 /\ result[k] = delta.updates[Last(InUpdates(k))].to
            ELSE IF InDeletions(k) # {}
            THEN k \notin DOMAIN result
            ELSE /\ k \in DOMAIN result <=> k \in DOMAIN config
                 /\ k \in DOMAIN config => result[k] = config[k]

\* C3 witness: apply_delta returned on a delta that deletes a key the base
\* does not hold and also updates it with a "from" that is not its value.
C3_Witness ==
    /\ pc = "returned"
    /\ \E k \in Keys :
          /\ k \notin DOMAIN config
          /\ InDeletions(k) # {}
          /\ InUpdates(k) # {}
          /\ k \in DOMAIN result

\* ------------------------------------------- properties of the model builder
Parsing == pc \in {"parse_elems", "parse_aggs"}
ParseDone == ~Parsing
\* Indices of the declarations of the description of one tag.
DeclsOf(tag) == {i \in 1..Len(description) : description[i].tag = tag}
DeclaredNames == {description[i].attrib["name"] : i \in DeclsOf("Class")}
Incomplete(elem) ==
    \/ elem.tag = "Class" /\ "name" \notin DOMAIN elem.attrib
    \/ /\ elem.tag = "Aggregation"
       /\ {"source", "target", "sourceMultiplicity", "targetMultiplicity"}
              \ DOMAIN elem.attrib # {}
\* The aggregations of the description that name the class as their target.
AggsInto(name) ==
    {i \in DeclsOf("Aggregation") : description[i].attrib["target"] = name}
\* The cardinalities of the two multiplicities of the free-form descriptions.
CardOf(m) == IF m = <<"1">> THEN <<(<<"1">>), (<<"1">>)>> ELSE <<(<<"0">>), (<<"*">>)>>

\* C6: unresolved targets are skipped silently.  The builder raises only for
\* a declaration that lacks a required attribute; once it has returned, the
\* children of every class are exactly the aggregations that name it as their
\* target, one child reference each, in the order of the aggregations in the
\* input wherever the class is declared and whether or not the source is
\* declared; an aggregation whose target is not declared adds nothing.
C6_UnresolvedSkipped ==
    /\ (Parsing /\ raised # "None") =>
          \E i \in 1..Len(description) : Incomplete(description[i])
    /\ ParseDone =>
        /\ {classes[c].name : c \in 1..Len(classes)} = DeclaredNames
        /\ \A c \in 1..Len(classes) :
              LET into == AggsInto(classes[c].name)
                  refs == classes[c].child_classes
              IN  /\ Len(refs) = Cardinality(into)
                  /\ \A i \in into :
                        LET k == Cardinality({j \in into : j <= i})
                            m == description[i].attrib["sourceMultiplicity"]
                        IN  refs[k] = <<description[i].attrib["source"],
                                        CardOf(m)[1], CardOf(m)[2]>>

\* C6 witness: the builder has returned on a description in which an
\* aggregation names an undeclared target and another, whose source is not
\* declared, names a class declared only after it, and that class has that
\* aggregation as its one child.
C6_Witness ==
    /\ ParseDone
    /\ raised = "None"
    /\ \E i \in DeclsOf("Aggregation") :
          description[i].attrib["target"] \notin DeclaredNames
    /\ \E i \in DeclsOf("Aggregation"), j \in DeclsOf("Class"), c \in 1..Len(classes) :
          /\ i < j
          /\ description[i].attrib["target"] = description[j].attrib["name"]
          /\ description[i].attrib["source"] \notin DeclaredNames
          /\ classes[c].name = description[j].attrib["name"]
          /\ Len(classes[c].child_classes) = 1
          /\ classes[c].child_classes[1][1] = description[i].attrib["source"]

\* C5, as claimed: the child reference has min = the text left of a ".." of the
\* multiplicity and max = the text right of that same "..", and min = max =
\* the whole string when it holds no "..".
SeparatorsIn(m) == {i \in 1..(Len(m) - 1) : m[i] = "." /\ m[i + 1] = "."}
StudyMultiplicity == description[3].attrib["sourceMultiplicity"]
StudyRef == classes[1].child_classes[1]
C5_OneSeparator ==
    ParseDone =>
        LET m == StudyMultiplicity
        IN  IF SeparatorsIn(m) = {}
            THEN StudyRef[2] = m /\ StudyRef[3] = m
            ELSE \E i \in SeparatorsIn(m) :
                    /\ StudyRef[2] = SubSeq(m, 1, i - 1)
                    /\ StudyRef[3] = SubSeq(m, i + 2, Len(m))

\* The separators that a left-to-right reading without overlap takes: a ".."
\* preceded by an even number of consecutive dots.
DotsBefore(m, i) ==
    Cardinality({j \in 1..(i - 1) : \A k \in j..(i - 1) : m[k] = "."})
TakenSeparators(m) == {i \in SeparatorsIn(m) : DotsBefore(m, i) % 2 = 0}
Least(S) == CHOOSE i \in S : \A j \in S : i <= j

\* C5, amended: min is the text left of the first ".." and max the text right
\* of the last ".." of a left-to-right reading without overlap; for a string
\* that holds no ".." min = max = the whole string.  So "0..*" gives ("0","*")
\* and "0" gives ("0","0").
C5_Cardinality ==
    ParseDone =>
        LET m == StudyMultiplicity
        IN  /\ IF SeparatorsIn(m) = {}
               THEN StudyRef[2] = m /\ StudyRef[3] = m
               ELSE /\ StudyRef[2] = SubSeq(m, 1, Least(SeparatorsIn(m)) - 1)
                    /\ StudyRef[3] = SubSeq(m, Last(TakenSeparators(m)) + 2, Len(m))
            /\ m = <<"0", ".", ".", "*">> => StudyRef = <<ClassPool[2], <<"0">>, <<"*">> >>
            /\ m = <<"0">> => StudyRef = <<ClassPool[2], <<"0">>, <<"0">> >>
            /\ StudyRef[1] = ClassPool[2]

\* C5 witness: the builder has returned on the multiplicity "0..*" with the
\* child reference (min "0", max "*").
C5_Witness ==
    /\ ParseDone
    /\ StudyMultiplicity = <<"0", ".", ".", "*">>
    /\ StudyRef[2] = <<"0">>
    /\ StudyRef[3] = <<"*">>

\* ------------------------------------------ properties of the tree serializer
NoRootFlag == \A c \in 1..Len(classes) : ~classes[c].is_root
TreeReturned == pc \in {"meta", "done"}

\* C4: missing root.  When no class of the model is flagged root (the empty
\* model included) generate goes no further than its root test: it builds no
\* element and returns no tree, and ends with ValueError.  ValueError is
\* raised for nothing else, and what the builder raises for a malformed
\* declaration is another exception, KeyError.
C4_MissingRoot ==
    /\ (ParseDone /\ NoRootFlag) =>
          /\ pc = "generate"
          /\ stack = <<>>
          /\ config_xml = <<>>
          /\ raised \in {"None", "ValueError"}
          /\ raised = "None" => ENABLED Generate
    /\ raised = "ValueError" => (pc = "generate" /\ NoRootFlag)
    /\ (Parsing /\ raised # "None") => raised = "KeyError"

\* C4 witness: generate has ended with ValueError on a model that holds
\* classes, none of them flagged root.
C4_Witness ==
    /\ pc = "generate"
    /\ raised = "ValueError"
    /\ classes # <<>>
    /\ NoRootFlag

\* The class of a name.
ClassNamed(name) == classes[CHOOSE c \in 1..Len(classes) : classes[c].name = name]
FirstRoot ==
    classes[CHOOSE c \in 1..Len(classes) :
                classes[c].is_root /\ \A d \in 1..(c - 1) : ~classes[d].is_root]

\* The shape of the subtree of a class: its label, then one leaf per
\* attribute, then one subtree per child reference, all in stored order.
RECURSIVE HasShape(_, _)
HasShape(node, name) ==
    LET attrs == ClassNamed(name).attributes
        refs == ClassNamed(name).child_classes
    IN  /\ node.tag = name
        /\ Len(node.children) = Len(attrs) + Len(refs)
        /\ \A i \in 1..Len(attrs) :
              node.children[i] =
                  [tag |-> attrs[i].name, text |-> attrs[i].type, children |-> <<>>]
        /\ \A j \in 1..Len(refs) :
              HasShape(node.children[Len(attrs) + j], refs[j][1])

ChildNamesOf(name) ==
    IF \E c \in 1..Len(classes) : classes[c].name = name
    THEN {ClassNamed(name).child_classes[i][1] :
             i \in 1..Len(ClassNamed(name).child_classes)}
    ELSE {}
\* The names reachable from a set of names through child references.
RECURSIVE Closure(_)
Closure(S) ==
    LET T == S \cup UNION {ChildNamesOf(n) : n \in S}
    IN  IF T = S THEN S ELSE Closure(T)
OnCycle(name) == name \in Closure(ChildNamesOf(name))
Resolved ==
    \A c \in 1..Len(classes) :
        ChildNamesOf(classes[c].name) \subseteq {classes[d].name : d \in 1..Len(classes)}
\* A model of the claim: parsed, with a root, every child reference resolved.
RootedResolved == ParseDone /\ ~NoRootFlag /\ Resolved
CycleInModel == \E c \in 1..Len(classes) : OnCycle(classes[c].name)
CycleFromRoot == \E n \in Closure({FirstRoot.name}) : OnCycle(n)

\* C10, as claimed: on a model with a root and every child reference
\* resolved, no tree is returned when some class of the model is reachable
\* from itself.
C10_AnyCycleNeverReturns ==
    (RootedResolved /\ CycleInModel) => ~TreeReturned

\* C10, amended: on a model with a root and every child reference resolved,
\* the expansion returns a tree whenever no class reachable from the root
\* (the root included) is reachable from itself, and never returns one, the
\* recursion going on until Python's recursion limit stops it, whenever some
\* class reachable from the root is; the builder raises nothing on cyclic
\* aggregation edges.
C10_Termination ==
    /\ [](Parsing => raised = "None")
    /\ []((RootedResolved /\ CycleFromRoot) => ~TreeReturned)
    /\ (RootedResolved /\ CycleFromRoot) ~> (raised = "RecursionError")
    /\ (RootedResolved /\ ~CycleFromRoot) ~> TreeReturned

\* C10 witness: the recursion limit has stopped the expansion of a model,
\* rooted and resolved, whose root is on no cycle and reaches a class that
\* contains itself.
C10_Witness ==
    /\ RootedResolved
    /\ raised = "RecursionError"
    /\ ~OnCycle(FirstRoot.name)
    /\ \E n \in Closure({FirstRoot.name}) : OnCycle(n)

\* --------------------------------------- properties of the metadata projector
\* C8: lossy cardinality.  The entry of a class carries min and max exactly
\* when the class has a child reference, and then they are the min and max
\* of the first child reference, whatever the later ones hold.
C8_FirstChildCardinality ==
    \A k \in 1..Len(meta_json) :
        LET entry == meta_json[k]
            refs == classes[k].child_classes
        IN  /\ entry.class = classes[k].name
            /\ "min" \in DOMAIN entry <=> refs # <<>>
            /\ "max" \in DOMAIN entry <=> refs # <<>>
            /\ refs # <<>> => (entry.min = refs[1][2] /\ entry.max = refs[1][3])

\* C8 witness: the projector has made the entry of a class whose second
\* child reference has another cardinality than its first; the entry carries
\* the first one's.
C8_Witness ==
    \E k \in 1..Len(meta_json) :
        /\ Len(classes[k].child_classes) >= 2
        /\ classes[k].child_classes[2][3] # classes[k].child_classes[1][3]
        /\ meta_json[k].max = classes[k].child_classes[1][3]
        /\ meta_json[k].min = classes[k].child_classes[1][2]

=============================================================================
